---- MODULE Spec2Model ----
(***************************************************************************)
(* A model of the notebook credit_card_fraud_analysis.ipynb: a linear      *)
(* PySpark pipeline  load -> parse personal_detail -> parse address ->     *)
(* flatten -> convert timestamps -> mask cc_num -> show sample ->          *)
(* visualize.  Every notebook cell is one action; a DataFrame is a schema  *)
(* (column name -> type) together with a sequence of rows (column name ->  *)
(* value).  The column expressions of pyspark.sql.functions are operators  *)
(* computed as Spark computes them with its default (non-ANSI) settings.   *)
(*                                                                         *)
(* Representation of values (every value is a record tagged by k):         *)
(*   NullV                 SQL NULL                                        *)
(*   Str(s)                a string, s the sequence of its characters      *)
(*   Json(t)               a string whose characters spell the JSON        *)
(*                         tokens t (LBrace, RBrace, KV(key, value))       *)
(*   Long(hi, lo)          the 64-bit integer hi * MicrosPerSecond + lo,   *)
(*                         in two limbs                                    *)
(*   Dbl(m, sc)            the double m * 10^(-sc), normalised             *)
(*   IntV(n)               a 32-bit integer                                *)
(*   Ts(sec, us)           a timestamp: an instant in epoch seconds and    *)
(*                         microseconds (Spark timestamps carry no zone)   *)
(*   Struct(r)             a nested record                                 *)
(*   Hex(bits, s)          the lowercase hex SHA-2 digest of the string s  *)
(*                         (the digest is a free constructor of its input) *)
(***************************************************************************)
EXTENDS Integers, Sequences, FiniteSets, TLC

VARIABLES
    file,        \* the rows of the JSON-lines resource read by the loader
    sessionTZ,   \* spark.sql.session.timeZone of the SparkSession
    pc,          \* the cell that ran last
    df_raw,      \* the loaded DataFrame
    df,          \* the DataFrame being transformed
    sample,      \* what show-sample printed
    pdf,         \* the pandas table handed to the plot
    prev,        \* the df produced by the previous run of the notebook
    run          \* number of the current run of the notebook

vars == <<file, sessionTZ, pc, df_raw, df, sample, pdf, prev, run>>

----------------------------------------------------------------------------
\* Bounds of the model

MaxRows == 2
MaxNameLen == 3
MaxNumLen == 3
MaxRuns == 2

----------------------------------------------------------------------------
\* Values

NullV == [k |-> "null"]
Str(s) == [k |-> "str", v |-> s]
Json(t) == [k |-> "json", v |-> t]
Long(hi, lo) == [k |-> "long", v |-> <<hi, lo>>]
Dbl(m, sc) == [k |-> "double", v |-> <<m, sc>>]
IntV(n) == [k |-> "int", v |-> n]
Ts(sec, us) == [k |-> "timestamp", v |-> <<sec, us>>]
Struct(r) == [k |-> "struct", v |-> r]
Hex(bits, s) == [k |-> "hex", v |-> <<bits, s>>]

IsNull(x) == x.k = "null"

LBrace == [t |-> "{"]
RBrace == [t |-> "}"]
KV(key, val) == [t |-> "kv", key |-> key, val |-> val]

Digits == {"0", "1", "2", "3", "4", "5", "6", "7", "8", "9"}

DigitVal(c) ==
    CASE c = "0" -> 0 [] c = "1" -> 1 [] c = "2" -> 2 [] c = "3" -> 3
      [] c = "4" -> 4 [] c = "5" -> 5 [] c = "6" -> 6 [] c = "7" -> 7
      [] c = "8" -> 8 [] c = "9" -> 9

----------------------------------------------------------------------------
\* DataFrame primitives

\* DataFrame.withColumn on one row / on the schema: replaces a column of the
\* same name, adds the column otherwise
RowWith(row, name, val) ==
    [c \in (DOMAIN row) \cup {name} |-> IF c = name THEN val ELSE row[c]]

\* DataFrame.drop: a no-op for names that are not columns
RowDrop(row, names) == [c \in (DOMAIN row) \ names |-> row[c]]

\* col("a") or col("a.b"): the value of a column, or of a field of a struct
\* column; a field of a NULL struct is NULL
Field(row, column, fld) ==
    IF IsNull(row[column]) THEN NullV ELSE row[column].v[fld]

----------------------------------------------------------------------------
\* Schemas

SType(t) == [t |-> t, fields |-> {}]
StructType(fields) == [t |-> "struct", fields |-> fields]

\* personal_schema: eight StringType fields
personal_schema ==
    {"person_name", "gender", "address", "lat", "long", "city_pop", "job", "dob"}

\* address_schema: four StringType fields
address_schema == {"street", "city", "state", "zip"}

\* The schema spark.read.json infers for the transaction records
RawColumns ==
    {"cc_num", "amt", "category", "is_fraud", "trans_date_trans_time",
     "merch_last_update_time", "merch_eff_time", "personal_detail"}

RawSchema ==
    [c \in RawColumns |->
        CASE c \in {"merch_last_update_time", "merch_eff_time", "is_fraud"} -> SType("long")
          [] c = "amt" -> SType("double")
          [] OTHER -> SType("string")]

\* Does the column reference a ("a") or a.b (<<"a", "b">>) resolve?
Resolves(schema, ref) ==
    IF Len(ref) = 1
    THEN ref[1] \in DOMAIN schema
    ELSE /\ ref[1] \in DOMAIN schema
         /\ ref[2] \in schema[ref[1]].fields

\* The value of a resolved column reference in a row
Deref(row, ref) ==
    IF Len(ref) = 1 THEN row[ref[1]] ELSE Field(row, ref[1], ref[2])

----------------------------------------------------------------------------
\* from_json(column, schema) with a StructType of StringType fields

\* A JSON object: "{", then key/value members, then "}"
WellFormedObject(toks) ==
    /\ Len(toks) >= 2
    /\ toks[1] = LBrace
    /\ toks[Len(toks)] = RBrace
    /\ \A i \in 2..(Len(toks) - 1) : toks[i].t = "kv"

\* The value of member fld: the last member of that name wins, a missing
\* member or a JSON null is NULL
LookupField(toks, fld) ==
    LET hits == {i \in 2..(Len(toks) - 1) : toks[i].key = fld}
    IN IF hits = {} THEN NullV
       ELSE toks[CHOOSE i \in hits : \A j \in hits : j <= i].val

\* A variant of from_json that keeps the members read before the text broke
\* off instead of giving a struct of NULLs
from_jsonPartial(val, schemaFields) ==
    IF IsNull(val) THEN NullV
    ELSE IF val.k = "json" /\ Len(val.v) >= 1 /\ val.v[1] = LBrace
    THEN Struct([f \in schemaFields |->
            LET hits == {i \in 2..Len(val.v) : val.v[i].t = "kv" /\ val.v[i].key = f}
            IN IF hits = {} THEN NullV
               ELSE val.v[CHOOSE i \in hits : \A j \in hits : j <= i].val])
    ELSE Struct([f \in schemaFields |-> NullV])

\* NULL input gives a NULL struct; text that is not a JSON object gives a
\* struct whose fields are all NULL (PERMISSIVE mode); members that are not
\* in the schema are ignored
from_json(val, schemaFields) ==
    IF IsNull(val) THEN NullV
    ELSE IF val.k = "json" /\ WellFormedObject(val.v)
    THEN Struct([f \in schemaFields |-> LookupField(val.v, f)])
    ELSE Struct([f \in schemaFields |-> NullV])

----------------------------------------------------------------------------
\* split(column, "[,@/]")[i]

NameDelimiters == {",", "@", "/"}

RECURSIVE SplitChars(_)
\* java.lang.String.split(regex, -1): cut at every delimiter, empty pieces kept
SplitChars(s) ==
    LET cuts == {i \in 1..Len(s) : s[i] \in NameDelimiters}
    IN IF cuts = {} THEN <<s>>
       ELSE LET i == CHOOSE c \in cuts : \A d \in cuts : c <= d
            IN <<SubSeq(s, 1, i - 1)>> \o SplitChars(SubSeq(s, i + 1, Len(s)))

\* A variant of SplitItem that counts the pieces from one
SplitItemOneBased(val, i) ==
    IF IsNull(val) THEN NullV
    ELSE LET parts == SplitChars(val.v)
         IN IF i >= 1 /\ i <= Len(parts) THEN Str(parts[i]) ELSE NullV

\* split(...)[i] of a string column: NULL for a NULL string and for an index
\* past the end of the array
SplitItem(val, i) ==
    IF IsNull(val) THEN NullV
    ELSE LET parts == SplitChars(val.v)
         IN IF i < Len(parts) THEN Str(parts[i + 1]) ELSE NullV

----------------------------------------------------------------------------
\* cast("int") and cast("double") of a string column

RECURSIVE DigitsValue(_)
DigitsValue(s) ==
    IF s = << >> THEN 0
    ELSE 10 * DigitsValue(SubSeq(s, 1, Len(s) - 1)) + DigitVal(s[Len(s)])

AllDigits(s) == \A i \in 1..Len(s) : s[i] \in Digits

RECURSIVE Pow10(_)
Pow10(n) == IF n = 0 THEN 1 ELSE 10 * Pow10(n - 1)

\* The characters of a string value; text spelling JSON is never a number
CharsOf(val) == IF val.k = "str" THEN val.v ELSE <<"{">>

\* A variant of CastInt that reads the leading digits and ignores what follows
CastIntPrefix(val) ==
    IF IsNull(val) THEN NullV
    ELSE LET s == CharsOf(val)
             stops == {i \in 1..Len(s) : s[i] \notin Digits}
             cut == IF stops = {} THEN Len(s) + 1
                    ELSE CHOOSE c \in stops : \A d \in stops : c <= d
         IN IF cut = 1 THEN NullV ELSE IntV(DigitsValue(SubSeq(s, 1, cut - 1)))

\* UTF8String.toInt: an optional sign, digits up to an optional '.', and
\* after the '.' only digits, which are dropped (the value is truncated)
CastInt(val) ==
    IF IsNull(val) THEN NullV
    ELSE LET s == CharsOf(val)
             signed == Len(s) > 0 /\ s[1] \in {"-", "+"}
             body == IF signed THEN SubSeq(s, 2, Len(s)) ELSE s
             dots == {i \in 1..Len(body) : body[i] = "."}
             cut == IF dots = {} THEN Len(body) + 1
                    ELSE CHOOSE c \in dots : \A d \in dots : c <= d
             whole == SubSeq(body, 1, cut - 1)
             frac == SubSeq(body, cut + 1, Len(body))
         IN IF Len(s) = 0 \/ Len(body) = 0 THEN NullV
            ELSE IF ~AllDigits(whole) \/ ~AllDigits(frac) THEN NullV
            ELSE IF signed /\ s[1] = "-" THEN IntV(0 - DigitsValue(whole))
            ELSE IntV(DigitsValue(whole))

RECURSIVE Normalise(_, _)
\* m * 10^(-sc) with the trailing zeros of the fraction removed
Normalise(m, sc) ==
    IF sc > 0 /\ m % 10 = 0 THEN Normalise(m \div 10, sc - 1) ELSE <<m, sc>>

\* java.lang.Double.parseDouble on decimal text: an optional sign, digits
\* with at most one '.', and at least one digit
CastDouble(val) ==
    IF IsNull(val) THEN NullV
    ELSE LET s == CharsOf(val)
             signed == Len(s) > 0 /\ s[1] \in {"-", "+"}
             body == IF signed THEN SubSeq(s, 2, Len(s)) ELSE s
             dots == {i \in 1..Len(body) : body[i] = "."}
             cut == IF dots = {} THEN Len(body) + 1
                    ELSE CHOOSE c \in dots : \A d \in dots : c <= d
             whole == SubSeq(body, 1, cut - 1)
             frac == SubSeq(body, cut + 1, Len(body))
             mag == DigitsValue(whole) * Pow10(Len(frac)) + DigitsValue(frac)
             n == Normalise(mag, Len(frac))
         IN IF Len(whole) + Len(frac) = 0 THEN NullV
            ELSE IF ~AllDigits(whole) \/ ~AllDigits(frac) THEN NullV
            ELSE IF signed /\ s[1] = "-" THEN Dbl(0 - n[1], n[2])
            ELSE Dbl(n[1], n[2])

----------------------------------------------------------------------------
\* Time

\* Microseconds in a second: the unit of the epoch columns and the radix of
\* the two limbs of Long
MicrosPerSecond == 1000000

\* The UTC offset of "Asia/Kuala_Lumpur" in seconds (UTC+08:00, in force for
\* every instant from 1982 on; the inputs of the model are later than that)
KualaLumpurOffset == 28800

SessionZones == {"UTC", "Asia/Kuala_Lumpur", "Etc/GMT+8"}

ZoneOffset(zone) ==
    CASE zone = "UTC" -> 0
      [] zone = "Asia/Kuala_Lumpur" -> KualaLumpurOffset
      [] zone = "Etc/GMT+8" -> 0 - KualaLumpurOffset

IsLeap(y) == (y % 4 = 0 /\ y % 100 # 0) \/ y % 400 = 0

DaysInMonth(y, m) ==
    CASE m \in {4, 6, 9, 11} -> 30
      [] m = 2 -> IF IsLeap(y) THEN 29 ELSE 28
      [] OTHER -> 31

\* Days from 1970-01-01 to the civil date y-m-d (proleptic Gregorian)
DaysFromCivil(y, m, d) ==
    LET yy == IF m <= 2 THEN y - 1 ELSE y
        era == yy \div 400
        yoe == yy - era * 400
        mp == IF m > 2 THEN m - 3 ELSE m + 9
        doy == (153 * mp + 2) \div 5 + d - 1
        doe == yoe * 365 + yoe \div 4 - yoe \div 100 + doy
    IN era * 146097 + doe - 719468

\* The wall-clock fields of the instant sec (epoch seconds) read in UTC
Civil(sec) ==
    LET days == sec \div 86400
        sod == sec % 86400
        z == days + 719468
        era == z \div 146097
        doe == z - era * 146097
        yoe == (doe - doe \div 1460 + doe \div 36524 - doe \div 146096) \div 365
        doy == doe - (365 * yoe + yoe \div 4 - yoe \div 100)
        mp == (5 * doy + 2) \div 153
        d == doy - (153 * mp + 2) \div 5 + 1
        m == IF mp < 10 THEN mp + 3 ELSE mp - 9
        y == yoe + era * 400 + (IF m <= 2 THEN 1 ELSE 0)
    IN [year |-> y, month |-> m, day |-> d,
        hour |-> sod \div 3600, minute |-> (sod % 3600) \div 60, second |-> sod % 60]

\* What show() prints for a timestamp: its wall clock in the session zone
WallClock(ts, zone) == Civil(ts.v[1] + ZoneOffset(zone))

TwoDigits(s, i) == DigitVal(s[i]) * 10 + DigitVal(s[i + 1])

\* Text of the shape yyyy-MM-dd HH:mm:ss naming a date and time that exist
IsDateTimeText(s) ==
    /\ Len(s) = 19
    /\ \A i \in {1, 2, 3, 4, 6, 7, 9, 10, 12, 13, 15, 16, 18, 19} : s[i] \in Digits
    /\ s[5] = "-" /\ s[8] = "-" /\ s[11] = " " /\ s[14] = ":" /\ s[17] = ":"
    /\ TwoDigits(s, 6) \in 1..12
    /\ TwoDigits(s, 9) \in 1..DaysInMonth(DigitsValue(SubSeq(s, 1, 4)), TwoDigits(s, 6))
    /\ TwoDigits(s, 12) < 24 /\ TwoDigits(s, 15) < 60 /\ TwoDigits(s, 18) < 60

\* to_timestamp(column) without a format: the cast of a string to a
\* timestamp; the text is read as a wall clock of the session zone, text
\* that is no date and time gives NULL
to_timestamp(val, zone) ==
    IF IsNull(val) THEN NullV
    ELSE LET s == CharsOf(val)
         IN IF ~IsDateTimeText(s) THEN NullV
            ELSE Ts(DaysFromCivil(DigitsValue(SubSeq(s, 1, 4)), TwoDigits(s, 6),
                                  TwoDigits(s, 9)) * 86400
                    + TwoDigits(s, 12) * 3600 + TwoDigits(s, 15) * 60 + TwoDigits(s, 18)
                    - ZoneOffset(zone), 0)

\* col / d for a long column: the double seconds of the long
\* hi * MicrosPerSecond + lo when d divides MicrosPerSecond, kept as whole
\* seconds and microseconds
Divide(val, d) ==
    IF IsNull(val) THEN NullV
    ELSE LET scale == MicrosPerSecond \div d
         IN [k |-> "seconds",
             v |-> <<val.v[1] * scale + val.v[2] \div d, (val.v[2] % d) * scale>>]

\* cast("timestamp") of a number of seconds: the instant that many seconds
\* after the epoch
CastTimestamp(val) ==
    IF IsNull(val) THEN NullV ELSE Ts(val.v[1], val.v[2])

\* A variant of from_utc_timestamp that leaves the instant as it is
from_utc_timestampRelabel(val, zone) ==
    IF IsNull(val) THEN NullV ELSE Ts(val.v[1], val.v[2])

\* from_utc_timestamp(ts, zone): the instant whose UTC wall clock is the
\* wall clock of ts in the zone, that is ts moved forward by the zone's
\* UTC offset
from_utc_timestamp(val, zone) ==
    IF IsNull(val) THEN NullV ELSE Ts(val.v[1] + ZoneOffset(zone), val.v[2])

convert_epoch_microseconds(val) ==
    from_utc_timestamp(CastTimestamp(Divide(val, 1000000)), "Asia/Kuala_Lumpur")

----------------------------------------------------------------------------
\* sha2(column, 256)

\* NULL for a NULL input and for an unsupported bit length; 0 means 256
sha2(val, bits) ==
    IF IsNull(val) \/ bits \notin {0, 224, 256, 384, 512} THEN NullV
    ELSE Hex(IF bits = 0 THEN 256 ELSE bits, val.v)

----------------------------------------------------------------------------
\* DataFrames and column expressions

Frame(schema, rows) == [ok |-> TRUE, schema |-> schema, rows |-> rows]

\* The outcome of a transformation Spark rejects with an AnalysisException
Failed == [ok |-> FALSE, schema |-> << >>, rows |-> << >>]

Expr(fn, ref, arg) == [fn |-> fn, ref |-> ref, arg |-> arg]

\* The type of the column a reference resolves to
RefType(schema, ref) ==
    IF Len(ref) = 1 THEN schema[ref[1]] ELSE SType("string")

\* An expression is accepted when its column resolves and has a type the
\* function takes: from_json and sha2 take strings
Analyses(schema, e) ==
    /\ Resolves(schema, e.ref)
    /\ e.fn \in {"from_json", "sha2"} => RefType(schema, e.ref).t = "string"

ExprType(schema, e) ==
    CASE e.fn = "col" -> RefType(schema, e.ref)
      [] e.fn = "from_json" -> StructType(e.arg)
      [] e.fn = "double" -> SType("double")
      [] e.fn = "int" -> SType("int")
      [] e.fn \in {"to_timestamp", "convert_epoch_microseconds"} -> SType("timestamp")
      [] OTHER -> SType("string")

Eval(e, row, zone) ==
    LET x == Deref(row, e.ref)
    IN CASE e.fn = "col" -> x
         [] e.fn = "from_json" -> from_json(x, e.arg)
         [] e.fn = "split" -> SplitItem(x, e.arg)
         [] e.fn = "double" -> CastDouble(x)
         [] e.fn = "int" -> CastInt(x)
         [] e.fn = "to_timestamp" -> to_timestamp(x, zone)
         [] e.fn = "convert_epoch_microseconds" -> convert_epoch_microseconds(x)
         [] e.fn = "sha2" -> sha2(x, e.arg)

\* DataFrame.withColumn(name, e): one output row per input row
withColumn(frame, name, e, zone) ==
    IF ~frame.ok \/ ~Analyses(frame.schema, e) THEN Failed
    ELSE Frame(RowWith(frame.schema, name, ExprType(frame.schema, e)),
               [i \in 1..Len(frame.rows) |->
                    RowWith(frame.rows[i], name, Eval(e, frame.rows[i], zone))])

\* DataFrame.drop(names)
drop(frame, names) ==
    IF ~frame.ok THEN Failed
    ELSE Frame(RowDrop(frame.schema, names),
               [i \in 1..Len(frame.rows) |-> RowDrop(frame.rows[i], names)])

\* DataFrame.select(names): fails on a name that is no column
select(frame, names) ==
    IF ~frame.ok \/ ~(names \subseteq DOMAIN frame.schema) THEN Failed
    ELSE Frame([c \in names |-> frame.schema[c]],
               [i \in 1..Len(frame.rows) |-> [c \in names |-> frame.rows[i][c]]])

RECURSIVE withColumns(_, _, _)
\* A chain .withColumn(..).withColumn(..) ..., applied left to right
withColumns(frame, steps, zone) ==
    IF steps = << >> THEN frame
    ELSE withColumns(withColumn(frame, steps[1].name, steps[1].e, zone), Tail(steps), zone)

Step(name, e) == [name |-> name, e |-> e]

----------------------------------------------------------------------------
\* The cells of the notebook as transformations of a DataFrame

\* A variant of the cell that keeps only the rows whose text decoded
ParsePersonalDetailFrameDropMalformed(frame, zone) ==
    LET out == drop(withColumn(frame, "personal_detail_json",
                               Expr("from_json", <<"personal_detail">>, personal_schema), zone),
                    {"personal_detail"})
        Decoded(row) ==
            /\ ~IsNull(row["personal_detail_json"])
            /\ \E f \in personal_schema : ~IsNull(row["personal_detail_json"].v[f])
    IN IF ~out.ok THEN Failed ELSE Frame(out.schema, SelectSeq(out.rows, Decoded))

\* A variant of the cell that drops personal_detail before decoding it
ParsePersonalDetailFrameDropFirst(frame, zone) ==
    withColumn(drop(frame, {"personal_detail"}), "personal_detail_json",
               Expr("from_json", <<"personal_detail">>, personal_schema), zone)

\* cell personal-detail-schema
ParsePersonalDetailFrame(frame, zone) ==
    drop(withColumn(frame, "personal_detail_json",
                    Expr("from_json", <<"personal_detail">>, personal_schema), zone),
         {"personal_detail"})

\* cell address-schema
ParseAddressFrame(frame, zone) ==
    withColumn(frame, "address_json",
               Expr("from_json", <<"personal_detail_json", "address">>, address_schema), zone)

FlattenSteps ==
    << Step("first", Expr("split", <<"personal_detail_json", "person_name">>, 0)),
       Step("last", Expr("split", <<"personal_detail_json", "person_name">>, 1)),
       Step("gender", Expr("col", <<"personal_detail_json", "gender">>, 0)),
       Step("dob", Expr("col", <<"personal_detail_json", "dob">>, 0)),
       Step("street", Expr("col", <<"address_json", "street">>, 0)),
       Step("city", Expr("col", <<"address_json", "city">>, 0)),
       Step("state", Expr("col", <<"address_json", "state">>, 0)),
       Step("zip", Expr("col", <<"address_json", "zip">>, 0)),
       Step("lat", Expr("double", <<"personal_detail_json", "lat">>, 0)),
       Step("long", Expr("double", <<"personal_detail_json", "long">>, 0)),
       Step("city_pop", Expr("int", <<"personal_detail_json", "city_pop">>, 0)),
       Step("job", Expr("col", <<"personal_detail_json", "job">>, 0)) >>

\* A variant of the cell without the final drop
FlattenFrameKeepStructs(frame, zone) == withColumns(frame, FlattenSteps, zone)

\* cell flatten-fields
FlattenFrame(frame, zone) ==
    drop(withColumns(frame, FlattenSteps, zone), {"personal_detail_json", "address_json"})

TimestampSteps ==
    << Step("trans_date_trans_time", Expr("to_timestamp", <<"trans_date_trans_time">>, 0)),
       Step("merch_last_update_time",
            Expr("convert_epoch_microseconds", <<"merch_last_update_time">>, 0)),
       Step("merch_eff_time",
            Expr("convert_epoch_microseconds", <<"merch_eff_time">>, 0)) >>

\* A variant of the cell that moves trans_date_trans_time to the zone as well
ConvertTimestampsFrameAll(frame, zone) ==
    LET out == withColumns(frame, TimestampSteps, zone)
    IN IF ~out.ok THEN Failed
       ELSE Frame(out.schema,
                  [i \in 1..Len(out.rows) |->
                        RowWith(out.rows[i], "trans_date_trans_time",
                                from_utc_timestamp(out.rows[i]["trans_date_trans_time"],
                                                   "Asia/Kuala_Lumpur"))])

\* cell timestamp-convert
ConvertTimestampsFrame(frame, zone) == withColumns(frame, TimestampSteps, zone)

\* A variant of the cell that hashes cc_num together with category
MaskFrameSalted(frame, zone) ==
    LET out == withColumn(frame, "cc_num_masked", Expr("sha2", <<"cc_num">>, 256), zone)
    IN IF ~out.ok THEN Failed
       ELSE Frame(out.schema,
                  [i \in 1..Len(out.rows) |->
                        RowWith(out.rows[i], "cc_num_masked",
                                Hex(256, <<out.rows[i]["cc_num"], out.rows[i]["category"]>>))])

\* cell mask-cc
MaskFrame(frame, zone) ==
    withColumn(frame, "cc_num_masked", Expr("sha2", <<"cc_num">>, 256), zone)

SampleColumns == {"first", "last", "gender", "amt", "category", "is_fraud"}

\* show(5) prints at most five rows
ShowRows == 5

\* cell show-sample
ShowSampleFrame(frame) ==
    LET sel == select(frame, SampleColumns)
    IN IF ~sel.ok THEN Failed
       ELSE Frame(sel.schema,
                  SubSeq(sel.rows, 1, IF Len(sel.rows) < ShowRows THEN Len(sel.rows) ELSE ShowRows))

PlotColumns == {"category", "amt", "is_fraud"}

\* cell visualize: the table handed to seaborn
VisualizeFrame(frame) == select(frame, PlotColumns)

----------------------------------------------------------------------------
\* Actions: one per cell, run in the order of the notebook.  A cell that
\* raises leaves its variables as they were and stops the run.

Load ==
    /\ pc = "start"
    /\ df_raw' = Frame(RawSchema, file)
    /\ pc' = "loaded"
    /\ UNCHANGED <<file, sessionTZ, df, sample, pdf, prev, run>>

ParsePersonalDetail ==
    /\ pc = "loaded"
    /\ LET out == ParsePersonalDetailFrame(df_raw, sessionTZ)
       IN IF out.ok THEN df' = out /\ pc' = "personal"
          ELSE df' = df /\ pc' = "failed"
    /\ UNCHANGED <<file, sessionTZ, df_raw, sample, pdf, prev, run>>

ParseAddress ==
    /\ pc = "personal"
    /\ LET out == ParseAddressFrame(df, sessionTZ)
       IN IF out.ok THEN df' = out /\ pc' = "address"
          ELSE df' = df /\ pc' = "failed"
    /\ UNCHANGED <<file, sessionTZ, df_raw, sample, pdf, prev, run>>

FlattenFields ==
    /\ pc = "address"
    /\ LET out == FlattenFrame(df, sessionTZ)
       IN IF out.ok THEN df' = out /\ pc' = "flattened"
          ELSE df' = df /\ pc' = "failed"
    /\ UNCHANGED <<file, sessionTZ, df_raw, sample, pdf, prev, run>>

ConvertTimestamps ==
    /\ pc = "flattened"
    /\ LET out == ConvertTimestampsFrame(df, sessionTZ)
       IN IF out.ok THEN df' = out /\ pc' = "timestamps"
          ELSE df' = df /\ pc' = "failed"
    /\ UNCHANGED <<file, sessionTZ, df_raw, sample, pdf, prev, run>>

MaskCcNum ==
    /\ pc = "timestamps"
    /\ LET out == MaskFrame(df, sessionTZ)
       IN IF out.ok THEN df' = out /\ pc' = "masked"
          ELSE df' = df /\ pc' = "failed"
    /\ UNCHANGED <<file, sessionTZ, df_raw, sample, pdf, prev, run>>

ShowSample ==
    /\ pc = "masked"
    /\ LET out == ShowSampleFrame(df)
       IN IF out.ok THEN sample' = out /\ pc' = "shown"
          ELSE sample' = sample /\ pc' = "failed"
    /\ UNCHANGED <<file, sessionTZ, df_raw, df, pdf, prev, run>>

Visualize ==
    /\ pc = "shown"
    /\ LET out == VisualizeFrame(df)
       IN IF out.ok THEN pdf' = out /\ pc' = "done"
          ELSE pdf' = pdf /\ pc' = "failed"
    /\ UNCHANGED <<file, sessionTZ, df_raw, df, sample, prev, run>>

\* Running the notebook again in the same session on the same resource: the
\* variables of the kernel keep their values until a cell assigns them
Rerun ==
    /\ pc = "done"
    /\ run < MaxRuns
    /\ prev' = df
    /\ run' = run + 1
    /\ pc' = "start"
    /\ UNCHANGED <<file, sessionTZ, df_raw, df, sample, pdf>>

Next ==
    \/ Load
    \/ ParsePersonalDetail
    \/ ParseAddress
    \/ FlattenFields
    \/ ConvertTimestamps
    \/ MaskCcNum
    \/ ShowSample
    \/ Visualize
    \/ Rerun

----------------------------------------------------------------------------
\* The inputs: the rows the loader can find in the resource

\* The text of an address object
AddressText(street, city, state, zip) ==
    Json(<<LBrace, KV("street", street), KV("city", city), KV("state", state),
           KV("zip", zip), RBrace>>)

\* The text of a personal_detail object
PersonalText(name, gender, address, lat, long, pop, job, dob) ==
    Json(<<LBrace, KV("person_name", name), KV("gender", gender), KV("address", address),
           KV("lat", lat), KV("long", long), KV("city_pop", pop), KV("job", job),
           KV("dob", dob), RBrace>>)

\* Text cut off before its closing brace
Truncated(text) == Json(SubSeq(text.v, 1, Len(text.v) - 1))

RawRow(cc, amt, category, fraud, tdt, mlu, mef, pd) ==
    [c \in RawColumns |->
        CASE c = "cc_num" -> cc
          [] c = "amt" -> amt
          [] c = "category" -> category
          [] c = "is_fraud" -> fraud
          [] c = "trans_date_trans_time" -> tdt
          [] c = "merch_last_update_time" -> mlu
          [] c = "merch_eff_time" -> mef
          [] c = "personal_detail" -> pd]

Card1 == Str(<<"4", "1", "1", "1", "1", "1", "1", "1", "1", "1", "1", "1", "1", "1", "1", "1">>)
Card2 == Str(<<"5", "5", "0", "0", "0", "0", "0", "0", "0", "0", "0", "0", "0", "0", "0", "4">>)
Grocery == Str(<<"g", "r", "o", "c", "e", "r", "y">>)
Travel == Str(<<"t", "r", "a", "v", "e", "l">>)
Address1 == AddressText(Str(<<"1", " ", "M", "a", "i", "n", " ", "S", "t">>), Str(<<"K", "L">>), Str(<<"W", "P">>), Str(<<"5", "0", "0", "0", "0">>))
Jan1Text == Str(<<"2", "0", "2", "1", "-", "0", "1", "-", "0", "1", " ", "1", "0", ":", "0", "0", ":", "0", "0">>)
\* 1609459200000000 microseconds: 2021-01-01T00:00:00Z
Jan1Epoch == Long(1609459200, 0)
DoeJohn == Str(<<"D", "o", "e", ",", "J", "o", "h", "n">>)
Male == Str(<<"M">>)
Engineer == Str(<<"E", "n", "g", "i", "n", "e", "e", "r">>)
Dob1 == Str(<<"1", "9", "9", "0", "-", "0", "1", "-", "0", "1">>)

\* The personal_detail of the record with one of its members replaced
Personal1With(fld, val) ==
    PersonalText(IF fld = "person_name" THEN val ELSE DoeJohn,
                 Male,
                 IF fld = "address" THEN val ELSE Address1,
                 IF fld = "lat" THEN val ELSE Str(<<"3", ".", "1">>),
                 IF fld = "long" THEN val ELSE Str(<<"1", "0", "1", ".", "6">>),
                 IF fld = "city_pop" THEN val ELSE Str(<<"1", "0", "0", "0", "0">>),
                 Engineer, Dob1)

Personal1 == Personal1With("none", NullV)

\* A well-formed record
Row1 == RawRow(Card1, Dbl(50, 0), Grocery, Long(0, 0), Jan1Text, Jan1Epoch, Jan1Epoch, Personal1)

\* The same card in another transaction, its personal_detail cut off
Row2 ==
    RawRow(Card1, Dbl(755, 1), Travel, Long(0, 1), Str(<<"2", "0", "2", "0", "-", "1", "2", "-", "3", "1", " ", "2", "3", ":", "5", "9", ":", "5", "9">>), Long(1609459199, 999999),
           Long(1582934400, 1), Truncated(Personal1With("person_name", Str(<<"A", "n", "n", "@", "L", "e", "e">>))))

\* Another card, the address text cut off
Row3 ==
    RawRow(Card2, Dbl(1, 2), Travel, Long(0, 0), Jan1Text, Long(1609430400, 0), Jan1Epoch,
           Personal1With("address", Truncated(Address1)))

\* personal_detail that is no JSON at all, a date that is no date
Row4 ==
    RawRow(Card2, Dbl(50, 0), Grocery, Long(0, 1), Str(<<"n", "o", "t", " ", "a", " ", "d", "a", "t", "e">>), Jan1Epoch, Jan1Epoch, Str(<<"o", "o", "p", "s">>))

\* Missing members: NULL card, NULL times, NULL personal_detail
Row5 == RawRow(NullV, NullV, NullV, NullV, NullV, NullV, NullV, NullV)

\* A name without a delimiter, a population that is no number, an address that
\* is no JSON
Row6 ==
    RawRow(Card1, Dbl(50, 0), Grocery, Long(0, 0), Str(<<"2", "0", "2", "1", "-", "0", "2", "-", "3", "0", " ", "1", "0", ":", "0", "0", ":", "0", "0">>), Jan1Epoch, Long(2000000000, 500000),
           PersonalText(Str(<<"O", "n", "l", "y", "O", "n", "e", "N", "a", "m", "e">>), Male, Str(<<"n", "o", "w", "h", "e", "r", "e">>), Str(<<"3", ".", "1">>), Str(<<"1", "e">>), Str(<<"n", "o", "t", "_", "a", "_", "n", "u", "m", "b", "e", "r">>), NullV, Dob1))

\* An empty object: every member is missing
Row7 ==
    RawRow(Card2, Dbl(50, 0), Travel, Long(0, 1), Jan1Text, Jan1Epoch, Jan1Epoch,
           Json(<<LBrace, RBrace>>))

\* A member given twice, a member the schema does not have, a null address
Row8 ==
    RawRow(Card2, Dbl(50, 0), Grocery, Long(0, 0), Jan1Text, Jan1Epoch, Jan1Epoch,
           Json(<<LBrace, KV("person_name", Str(<<"A", "n", "n", "@", "L", "e", "e">>)), KV("nickname", Str(<<"O", "n", "l", "y", "O", "n", "e", "N", "a", "m", "e">>)),
                  KV("person_name", Str(<<"L", "e", "e", "/", "A", "n", "n", "/", "X">>)), KV("address", NullV),
                  KV("city_pop", Str(<<"1", ".", "7">>)), RBrace>>))

SampleRows == {Row1, Row2, Row3, Row4, Row5, Row6, Row7, Row8}

\* All sequences over alphabet of length at most n
Texts(alphabet, n) == UNION {[1..len -> alphabet] : len \in 0..n}

SampleFiles == UNION {[1..len -> SampleRows] : len \in 0..MaxRows}

NameAlphabet == {"a", "b", ",", "@", "/"}

\* One record for every name of at most MaxNameLen characters
NameFiles ==
    {<<RawRow(Card1, Dbl(50, 0), Grocery, Long(0, 0), Jan1Text, Jan1Epoch, Jan1Epoch,
              Personal1With("person_name", Str(n)))>> : n \in Texts(NameAlphabet, MaxNameLen)}

NumAlphabet == {"0", "1", ".", "-", "x"}

\* One record for every text of at most MaxNumLen characters in lat, in long and
\* in city_pop
NumFiles ==
    {<<RawRow(Card1, Dbl(50, 0), Grocery, Long(0, 0), Jan1Text, Jan1Epoch, Jan1Epoch,
              Personal1With(fld, Str(n)))>> :
        fld \in {"lat", "long", "city_pop"}, n \in Texts(NumAlphabet, MaxNumLen)}

\* Instants from 1982 to 2033, in whole seconds and microseconds
EpochSamples ==
    {Jan1Epoch, Long(1609459199, 999999), Long(1609430400, 0), Long(1582934400, 1),
     Long(378691200, 0), Long(2000000000, 500000)}

DateTexts ==
    {Str(Jan1Text.v), Str(<<"2", "0", "2", "0", "-", "1", "2", "-", "3", "1", " ", "2", "3", ":", "5", "9", ":", "5", "9">>), Str(<<"2", "0", "2", "0", "-", "0", "2", "-", "2", "9", " ", "0", "0", ":", "0", "0", ":", "0", "0">>), Str(<<"2", "0", "2", "1", "-", "0", "2", "-", "3", "0", " ", "1", "0", ":", "0", "0", ":", "0", "0">>), Str(<<"n", "o", "t", " ", "a", " ", "d", "a", "t", "e">>), Str(<<"2", "0", "2", "1", "-", "0", "1", "-", "0", "1", " ", "2", "4", ":", "0", "0", ":", "0", "0">>)}

TimeFiles ==
    {<<RawRow(Card1, Dbl(50, 0), Grocery, Long(0, 0), tdt, mlu, mef, Personal1)>> :
        tdt \in DateTexts, mlu \in EpochSamples, mef \in EpochSamples}

Init ==
    /\ \/ file \in TimeFiles /\ sessionTZ \in SessionZones
       \/ file \in SampleFiles \cup NameFiles \cup NumFiles /\ sessionTZ = "UTC"
    /\ pc = "start"
    /\ df_raw = Frame(<< >>, << >>)
    /\ df = Frame(<< >>, << >>)
    /\ sample = Frame(<< >>, << >>)
    /\ pdf = Frame(<< >>, << >>)
    /\ prev = Frame(<< >>, << >>)
    /\ run = 1

Spec == Init /\ [][Next]_vars

----------------------------------------------------------------------------
\* Vocabulary of the properties

AfterPersonal == {"personal", "address", "flattened", "timestamps", "masked", "shown", "done"}
AfterFlatten == {"flattened", "timestamps", "masked", "shown", "done"}
AfterTimestamps == {"timestamps", "masked", "shown", "done"}
AfterMask == {"masked", "shown", "done"}

DerivedColumns ==
    {"first", "last", "gender", "dob", "street", "city", "state", "zip",
     "lat", "long", "city_pop", "job"}

AddressColumns == {"street", "city", "state", "zip"}

TimestampColumns == {"trans_date_trans_time", "merch_last_update_time", "merch_eff_time"}

EpochColumns == {"merch_last_update_time", "merch_eff_time"}

\* Text that is not a JSON object: NULL, plain characters, or tokens that do
\* not open with "{" and close with "}"
NotJsonObject(val) ==
    \/ IsNull(val)
    \/ val.k = "str"
    \/ val.k = "json" /\ (Len(val.v) < 2 \/ val.v[1].t # "{" \/ val.v[Len(val.v)].t # "}")

\* The member fld of an object text, NULL when the object has none
Member(val, fld) ==
    LET hits == {i \in 1..Len(val.v) : val.v[i].t = "kv" /\ val.v[i].key = fld}
    IN IF hits = {} THEN NullV ELSE val.v[CHOOSE i \in hits : \A j \in hits : j <= i].val

\* The object text with every member fld given the value val
ReplaceMember(text, fld, val) ==
    Json([i \in 1..Len(text.v) |->
            IF text.v[i].t = "kv" /\ text.v[i].key = fld THEN KV(fld, val) ELSE text.v[i]])

\* The flattened row the cells 2 to 4 make of one raw row
FlatOf(row, zone) ==
    FlattenFrame(ParseAddressFrame(ParsePersonalDetailFrame(Frame(RawSchema, <<row>>), zone),
                                   zone), zone).rows[1]

HasDelimiter(s) == \E i \in 1..Len(s) : s[i] \in {",", "@", "/"}

\* t is the piece of s that starts at position from and runs to the next
\* delimiter or to the end
IsPieceAt(s, from, t) ==
    /\ ~HasDelimiter(t)
    /\ from + Len(t) - 1 <= Len(s)
    /\ SubSeq(s, from, from + Len(t) - 1) = t
    /\ from + Len(t) <= Len(s) => s[from + Len(t)] \in {",", "@", "/"}

\* Decimal text: an optional sign, then digits with at most one '.', at
\* least one digit
IsDecimalText(s) ==
    LET b == IF Len(s) > 0 /\ s[1] \in {"-", "+"} THEN SubSeq(s, 2, Len(s)) ELSE s
    IN /\ \A i \in 1..Len(b) : b[i] \in Digits \cup {"."}
       /\ Cardinality({i \in 1..Len(b) : b[i] = "."}) <= 1
       /\ \E i \in 1..Len(b) : b[i] \in Digits

\* Integer text: an optional sign, then one or more digits
IsIntegerText(s) ==
    LET b == IF Len(s) > 0 /\ s[1] \in {"-", "+"} THEN SubSeq(s, 2, Len(s)) ELSE s
    IN Len(b) > 0 /\ \A i \in 1..Len(b) : b[i] \in Digits

\* Text that is no number at all: empty, or with a character that is no
\* digit, sign or point, or a sign after the first place, or two points
IsNonNumericText(s) ==
    \/ Len(s) = 0
    \/ \E i \in 1..Len(s) : s[i] \notin Digits \cup {".", "-", "+"}
    \/ \E i \in 2..Len(s) : s[i] \in {"-", "+"}
    \/ Cardinality({i \in 1..Len(s) : s[i] = "."}) > 1

\* The wall clock written in a date and time text
TextClock(s) ==
    [year |-> DigitsValue(SubSeq(s, 1, 4)), month |-> TwoDigits(s, 6), day |-> TwoDigits(s, 9),
     hour |-> TwoDigits(s, 12), minute |-> TwoDigits(s, 15), second |-> TwoDigits(s, 18)]

Clock(y, mo, d, h, mi, sec) ==
    [year |-> y, month |-> mo, day |-> d, hour |-> h, minute |-> mi, second |-> sec]

\* No cell has raised and df has one row per row of the resource
Intact == pc # "failed" /\ df.ok /\ Len(df.rows) = Len(file)

----------------------------------------------------------------------------
\* C1: after each of the stages personal-detail parse, address parse, flatten,
\* timestamp normalize and mask, and at the end of the pipeline, df has exactly
\* as many rows as were loaded, malformed rows included, and no stage raised.
C1_RowCountPreserved ==
    /\ pc # "failed"
    /\ pc # "start" => df_raw.ok /\ Len(df_raw.rows) = Len(file)
    /\ pc \in AfterPersonal => df.ok /\ Len(df.rows) = Len(file)
    /\ pc = "done" => Len(pdf.rows) = Len(file)

\* A finished run over two rows, one with personal_detail that is no JSON and
\* a date that is no date
C1_Witness ==
    /\ pc = "done"
    /\ Len(file) = 2
    /\ Len(df.rows) = 2
    /\ \E i \in 1..2 : file[i] = Row4

\* C2: after the whole pipeline the output has the column cc_num_masked and
\* does not have the column cc_num.
C2_CcNumDropped ==
    pc \in AfterMask => "cc_num_masked" \in DOMAIN df.schema /\ "cc_num" \notin DOMAIN df.schema

\* C3: a row whose personal_detail is not a JSON object is kept, raises
\* nothing, and has all twelve derived columns NULL; a row whose personal_detail
\* is an object but whose address text is not has street, city, state and zip
\* NULL and its other eight derived columns as they are with a good address.
C3_MalformedJsonGivesNulls ==
    pc \in AfterFlatten =>
        /\ Intact
        /\ \A i \in 1..Len(file) :
            LET pd == file[i]["personal_detail"]
            IN /\ NotJsonObject(pd) => \A c \in DerivedColumns : IsNull(df.rows[i][c])
               /\ (~NotJsonObject(pd) /\ ~IsNull(Member(pd, "address"))
                        /\ NotJsonObject(Member(pd, "address"))) =>
                    /\ \A c \in AddressColumns : IsNull(df.rows[i][c])
                    /\ LET good == FlatOf(RowWith(file[i], "personal_detail",
                                                  ReplaceMember(pd, "address", Address1)), sessionTZ)
                       IN \A c \in DerivedColumns \ AddressColumns : df.rows[i][c] = good[c]

\* Both cases in one flattened frame: cut-off personal_detail, and a cut-off
\* address next to a decoded name
C3_Witness ==
    /\ pc = "flattened"
    /\ file = <<Row2, Row3>>
    /\ IsNull(df.rows[1]["first"]) /\ IsNull(df.rows[1]["job"])
    /\ IsNull(df.rows[2]["street"])
    /\ df.rows[2]["first"] = Str(<<"D", "o", "e">>)
    /\ df.rows[2]["city_pop"] = IntV(10000)

\* C4: for a decoded, non-NULL person_name, first is the piece of the name up
\* to its first delimiter and last the piece after it, up to the second
\* delimiter; a name without a delimiter gives first the whole name and last
\* NULL; "Doe,John" gives "Doe" and "John".
C4_SplitFirstLast ==
    pc \in AfterFlatten =>
        /\ Intact
        /\ \A i \in 1..Len(file) :
            LET pd == file[i]["personal_detail"]
                name == Member(pd, "person_name")
                first == df.rows[i]["first"]
                last == df.rows[i]["last"]
            IN (~NotJsonObject(pd) /\ ~IsNull(name)) =>
                /\ ~IsNull(first)
                /\ IsPieceAt(name.v, 1, first.v)
                /\ HasDelimiter(name.v) =>
                    ~IsNull(last) /\ IsPieceAt(name.v, Len(first.v) + 2, last.v)
                /\ ~HasDelimiter(name.v) => IsNull(last) /\ first.v = name.v
                /\ name = DoeJohn => first = Str(<<"D", "o", "e">>) /\ last = Str(<<"J", "o", "h", "n">>)

\* "Doe,John" split next to a name without a delimiter
C4_Witness ==
    /\ pc = "flattened"
    /\ file = <<Row1, Row6>>
    /\ df.rows[1]["first"] = Str(<<"D", "o", "e">>)
    /\ df.rows[1]["last"] = Str(<<"J", "o", "h", "n">>)
    /\ df.rows[2]["first"] = Str(<<"O", "n", "l", "y", "O", "n", "e", "N", "a", "m", "e">>)
    /\ IsNull(df.rows[2]["last"])

MemberText(pd, fld) == CharsOf(Member(pd, fld))

\* C7 as written: for a row whose personal_detail decodes, a lat or long text
\* that is no decimal number gives NULL in that column and a city_pop text
\* that is no integer gives NULL in city_pop.
C7_InvalidNumberGivesNull ==
    pc \in AfterFlatten =>
        \A i \in 1..Len(file) :
            LET pd == file[i]["personal_detail"]
            IN ~NotJsonObject(pd) =>
                /\ \A c \in {"lat", "long"} :
                    (~IsNull(Member(pd, c)) /\ ~IsDecimalText(MemberText(pd, c))) =>
                        IsNull(df.rows[i][c])
                /\ (~IsNull(Member(pd, "city_pop")) /\ ~IsIntegerText(MemberText(pd, "city_pop"))) =>
                        IsNull(df.rows[i]["city_pop"])

\* C7 as amended: for a row whose personal_detail decodes, a lat or long text
\* that is no decimal number gives NULL in that column, and a city_pop text
\* that is non-numeric gives NULL in city_pop, while a city_pop text that is a
\* decimal number with a fraction (digits, '.', digits) is not NULL but its
\* whole part; in each case nothing is raised, the row is kept, and the other
\* derived columns are, at the end of the flattener and in the final output,
\* what they are with a valid number in that member.
C7_NonNumericGivesNull ==
    pc \in AfterFlatten =>
        /\ Intact
        /\ \A i \in 1..Len(file) :
            LET pd == file[i]["personal_detail"]
                pop == MemberText(pd, "city_pop")
            IN ~NotJsonObject(pd) =>
                /\ \A c \in {"lat", "long"} :
                    (~IsNull(Member(pd, c)) /\ ~IsDecimalText(MemberText(pd, c))) =>
                        IsNull(df.rows[i][c])
                /\ (~IsNull(Member(pd, "city_pop")) /\ IsNonNumericText(pop)) =>
                        IsNull(df.rows[i]["city_pop"])
                /\ (~IsNull(Member(pd, "city_pop")) /\ IsDecimalText(pop)
                        /\ pop[1] \in Digits /\ ~IsIntegerText(pop)) =>
                        /\ df.rows[i]["city_pop"].k = "int"
                        /\ \E n \in 1..Len(pop) :
                            /\ pop[n] = "."
                            /\ df.rows[i]["city_pop"].v = DigitsValue(SubSeq(pop, 1, n - 1))
                /\ \A c \in {"lat", "long", "city_pop"} :
                    (pc \in {"flattened", "done"} /\ ~IsNull(Member(pd, c))) =>
                        LET good == FlatOf(RowWith(file[i], "personal_detail",
                                                   ReplaceMember(pd, c, Str(<<"0">>))), sessionTZ)
                        IN \A d \in DerivedColumns \ {c} : df.rows[i][d] = good[d]

\* A population that is no number next to a latitude that is one
C7_Witness ==
    /\ pc = "flattened"
    /\ file = <<Row6, Row8>>
    /\ IsNull(df.rows[1]["city_pop"])
    /\ IsNull(df.rows[1]["long"])
    /\ df.rows[1]["lat"] = Dbl(31, 1)
    /\ df.rows[2]["city_pop"] = IntV(1)

\* C8: from the end of the flattener on, the schema has none of
\* personal_detail, personal_detail_json and address_json, has all twelve
\* flattened columns, and has the three timestamp columns under their
\* original names; every row has exactly the columns of the schema.
C8_FlattenedSchema ==
    pc \in AfterFlatten =>
        /\ Intact
        /\ DOMAIN df.schema \cap {"personal_detail", "personal_detail_json", "address_json"} = {}
        /\ DerivedColumns \subseteq DOMAIN df.schema
        /\ TimestampColumns \subseteq DOMAIN df.schema
        /\ \A i \in 1..Len(df.rows) : DOMAIN df.rows[i] = DOMAIN df.schema

\* A masked frame with rows
C8_Witness ==
    /\ pc = "masked"
    /\ Len(df.rows) = 2
    /\ "first" \in DOMAIN df.rows[1]
    /\ "personal_detail_json" \notin DOMAIN df.rows[1]

C10_StagesReadPresentColumns ==
    /\ pc # "failed"
    /\ pc = "loaded" => "personal_detail" \in DOMAIN df_raw.schema
    /\ pc = "personal" =>
        /\ "personal_detail" \notin DOMAIN df.schema
        /\ Resolves(df.schema, <<"personal_detail_json", "address">>)
    /\ pc = "address" =>
        \A n \in 1..Len(FlattenSteps) : Resolves(df.schema, FlattenSteps[n].e.ref)
    /\ pc = "flattened" => TimestampColumns \subseteq DOMAIN df.schema
    /\ pc = "timestamps" => "cc_num" \in DOMAIN df.schema
    /\ pc \in {"masked", "shown"} =>
        /\ SampleColumns \cup PlotColumns \subseteq DOMAIN df.schema
        /\ Len(df.rows) = Len(file)
        /\ \A i \in 1..Len(file) : \A c \in PlotColumns : df.rows[i][c] = file[i][c]
    /\ pc = "done" =>
        /\ pdf.ok
        /\ Len(pdf.rows) = Len(file)
        /\ \A i \in 1..Len(file) : \A c \in PlotColumns : pdf.rows[i][c] = file[i][c]

\* The plot table of a finished run over a fraud and a non-fraud row
C10_Witness ==
    /\ pc = "done"
    /\ file = <<Row1, Row2>>
    /\ pdf.rows[2]["is_fraud"] = Long(0, 1)
    /\ pdf.rows[1]["category"] = Grocery

====
